---------------------------- MODULE Spec2Model ----------------------------
(***************************************************************************)
(* A model of benford.py: the first-digit counter, the Benford expected    *)
(* counts, Pearson's chi-squared test, the plot's normalisation, the run   *)
(* main() and the directory loop of the __main__ block.                    *)
(*                                                                         *)
(* Text is modelled as sequences of one-character strings, so that str(),  *)
(* indexing [0], int(), os.path.splitext and str.lower are computed, not   *)
(* assumed.  Exceptions are modelled by their class and message.           *)
(***************************************************************************)
EXTENDS Integers, Sequences, FiniteSets, TLC

VARIABLES
    data_dir,       \* os.listdir(data_dir): the files, in listing order
    idx,            \* how many files the for loop has taken
    pc,             \* the statement about to run
    series,         \* main: series = load_data(data_file)
    pos,            \* count_first_digits: 1-based index of the next value
    first_digits,   \* count_first_digits: the dict digit -> count
    first_digit,    \* count_first_digits: the digit of the last value
    actuals,        \* main: actuals = count_first_digits(series)
    n_observations, \* get_expected_counts: its argument
    expected,       \* main: expected = get_expected_counts(sum(actuals))
    result,         \* main: chi2, p = chi_squared_test(actuals, expected)
    proportions,    \* plot_results: the proportions it draws
    err,            \* the exception in flight, NoError when none
    raised_in,      \* the function that raised err
    bound,          \* the names main has assigned so far
    out,            \* what the program has printed or shown, in order
    sum_check       \* whether the installed scipy compares the two sums

vars == <<data_dir, idx, pc, series, pos, first_digits, first_digit, actuals,
          n_observations, expected, result, proportions, err, raised_in,
          bound, out, sum_check>>

-----------------------------------------------------------------------------
(* Bounds of the model *)

MaxLen == 3        \* values in a data file's column (Spec)
MaxFiles == 3      \* files in the data directory (SpecBatch)
MaxTotal == 1200   \* n_observations handed to get_expected_counts
MaxChiLen == 3     \* length of the sequences handed to chi_squared_test
MaxCount == 3      \* largest count handed to chi_squared_test

-----------------------------------------------------------------------------
(* Exceptions, by class and message *)

NoError == "none"
WrongDataFormat == "ValueError: Wrong data format"
InvalidLiteral == "ValueError: invalid literal for int() with base 10"
StringIndex == "IndexError: string index out of range"
KeyErr == "KeyError"
CannotProcess == "IOError: Cannot process file format"
EmptyData == "EmptyDataError: No columns to parse from file"
DivisionByZero == "ZeroDivisionError: float division by zero"
SumsDiffer == "ValueError: sums of observed and expected frequencies differ"

-----------------------------------------------------------------------------
(* Generic helpers *)

RECURSIVE SumSeq(_)
SumSeq(s) == IF s = <<>> THEN 0 ELSE s[1] + SumSeq(Tail(s))

RECURSIVE Pow10(_)
Pow10(k) == IF k = 0 THEN 1 ELSE 10 * Pow10(k - 1)

RECURSIVE Gcd(_, _)
Gcd(a, b) == IF b = 0 THEN a ELSE Gcd(b, a % b)

SeqsUpTo(S, n) == UNION {[1..k -> S] : k \in 0..n}

\* F of the value of x: x is evaluated once, however often F uses it
With(x, F(_)) == CHOOSE r \in {F(v) : v \in {x}} : TRUE

-----------------------------------------------------------------------------
(* Values of a data column.  kind is the Python type: "int", "float" (a    *)
(* finite float, mag / 10^scale with scale >= 1 written without trailing   *)
(* zeros and at least 1/10^4 in size or zero, which repr prints in fixed   *)
(* notation), "nan" (the float NaN pandas gives a blank cell), "str" (text *)
(* holds its characters) and "none" (any type that is neither).            *)

IntValue(neg, mag) ==
    [kind |-> "int", neg |-> neg, mag |-> mag, scale |-> 0, text |-> <<>>]
FloatValue(neg, mag, scale) ==
    [kind |-> "float", neg |-> neg, mag |-> mag, scale |-> scale, text |-> <<>>]
StrValue(text) ==
    [kind |-> "str", neg |-> FALSE, mag |-> 0, scale |-> 0, text |-> text]
NaNValue == [kind |-> "nan", neg |-> FALSE, mag |-> 0, scale |-> 0, text |-> <<>>]
NoneValue == [kind |-> "none", neg |-> FALSE, mag |-> 0, scale |-> 0, text |-> <<>>]

DigitChars == <<"0", "1", "2", "3", "4", "5", "6", "7", "8", "9">>
DigitChar(d) == DigitChars[d + 1]

\* str(int) of a nonnegative int: its decimal digits
RECURSIVE Digits(_)
Digits(n) ==
    IF n < 10 THEN <<DigitChar(n)>> ELSE Digits(n \div 10) \o <<DigitChar(n % 10)>>

\* the k digits after the decimal point
RECURSIVE FracDigits(_, _)
FracDigits(f, k) ==
    IF k = 0 THEN <<>> ELSE FracDigits(f \div 10, k - 1) \o <<DigitChar(f % 10)>>

\* str(value) of an int or a float
str(value) ==
    LET sign == IF value.neg THEN <<"-">> ELSE <<>>
    IN  CASE value.kind = "int" -> sign \o Digits(value.mag)
          [] value.kind = "float" ->
                sign \o Digits(value.mag \div Pow10(value.scale)) \o <<".">>
                     \o FracDigits(value.mag % Pow10(value.scale), value.scale)
          [] value.kind = "nan" -> <<"n", "a", "n">>

\* int(c) of a one-character string
int(c) ==
    IF \E d \in 0..9 : DigitChar(d) = c
    THEN [err |-> NoError, val |-> CHOOSE d \in 0..9 : DigitChar(d) = c]
    ELSE [err |-> InvalidLiteral, val |-> -1]

\* A column is written as runs of equal values, [value, times] with times >= 1,
\* so that a column of a thousand values is a short expression; iterating it
\* still yields one value at a time.
Run(value, times) == [value |-> value, times |-> times]

\* len(column)
RECURSIVE Size(_)
Size(col) == IF col = <<>> THEN 0 ELSE col[1].times + Size(Tail(col))

\* the k-th value the iteration yields, 1 <= k <= Size(col)
RECURSIVE ValueAt(_, _)
ValueAt(col, k) ==
    IF k <= col[1].times THEN col[1].value ELSE ValueAt(Tail(col), k - col[1].times)

\* the column without its first value
DropFirst(col) ==
    IF col[1].times = 1 THEN Tail(col)
    ELSE <<Run(col[1].value, col[1].times - 1)>> \o Tail(col)

\* the column of the values of s, one run each
Column(s) == [i \in 1..Len(s) |-> Run(s[i], 1)]

\* isinstance(value, (int, float)) and isinstance(value, str)
IsNumber(value) == value.kind \in {"int", "float", "nan"}
IsStr(value) == value.kind = "str"

-----------------------------------------------------------------------------
(* count_first_digits *)

\* line 59: {i: 0 for i in range(1, 10)}
NewFirstDigits == [i \in 1..9 |-> 0]

\* ExtractDigit without its else branch: every value that is not a str is
\* written with str() and its first character handed to int()
ExtractDigit_NoTypeCheck(value) ==
    IF IsStr(value)
    THEN IF Len(value.text) = 0
         THEN [err |-> StringIndex, val |-> -1]
         ELSE int(value.text[1])
    ELSE IF IsNumber(value) THEN int(str(value)[1])
    ELSE [err |-> InvalidLiteral, val |-> -1]

\* lines 61-66: the digit taken from one value, or the exception raised
ExtractDigit(value) ==
    IF IsNumber(value) THEN int(str(value)[1])
    ELSE IF IsStr(value)
         THEN IF Len(value.text) = 0
              THEN [err |-> StringIndex, val |-> -1]
              ELSE int(value.text[1])
         ELSE [err |-> WrongDataFormat, val |-> -1]

\* line 68: first_digits[first_digit] += 1
Increment(fd, d) ==
    IF d \in DOMAIN fd
    THEN [err |-> NoError, fd |-> [fd EXCEPT ![d] = @ + 1]]
    ELSE [err |-> KeyErr, fd |-> fd]

\* line 69: [cnt for _, cnt in sorted(first_digits.items())]
SortedCounts(fd) ==
    LET keys == DOMAIN fd
        KeyAt(i) == CHOOSE k \in keys : Cardinality({j \in keys : j < k}) = i - 1
    IN  [i \in 1..Cardinality(keys) |-> fd[KeyAt(i)]]

-----------------------------------------------------------------------------
(* get_expected_counts *)

\* BENFORD_PROPS with the digits of its last entry transposed
BENFORD_PROPS_Typo == <<301, 176, 125, 97, 79, 67, 58, 51, 64>>

\* line 32, in thousandths
BENFORD_PROPS == <<301, 176, 125, 97, 79, 67, 58, 51, 46>>
PropScale == 1000

\* round replaced by int(): truncation
round_Truncates(num, den) == num \div den

\* Python 3 round(num / den): to the nearest integer, a tie to the even one.
\* For n_observations below 2500 the double product n * prop rounds as the
\* exact product does (2500 * .051 is the first to differ).
round(num, den) ==
    LET q == num \div den
        r == num % den
    IN  IF 2 * r > den \/ (2 * r = den /\ q % 2 = 1) THEN q + 1 ELSE q

\* line 74
get_expected_counts(n) ==
    [i \in 1..Len(BENFORD_PROPS) |-> round(n * BENFORD_PROPS[i], PropScale)]

-----------------------------------------------------------------------------
(* chi_squared_test: scipy's chisquare on doubles.  A double is "nan",     *)
(* "inf" or the exact fraction num / den.                                  *)

NaN == [kind |-> "nan", num |-> 0, den |-> 1]
Inf == [kind |-> "inf", num |-> 0, den |-> 1]
Frac(num, den) ==
    LET g == Gcd(IF num < 0 THEN -num ELSE num, den)
    IN  [kind |-> "num", num |-> num \div g, den |-> den \div g]

\* Term without the square
Term_NoSquare(o, e) ==
    IF e = 0 THEN (IF o - e = 0 THEN NaN ELSE Inf) ELSE Frac(o - e, e)

\* (f_obs - f_exp)**2 / f_exp, numpy's division: x/0 is inf, 0/0 is nan
Term(o, e) ==
    IF e = 0 THEN (IF (o - e) * (o - e) = 0 THEN NaN ELSE Inf)
    ELSE Frac((o - e) * (o - e), e)

FAdd(a, b) ==
    IF a.kind = "nan" \/ b.kind = "nan" THEN NaN
    ELSE IF a.kind = "inf" \/ b.kind = "inf" THEN Inf
    ELSE Frac(a.num * b.den + b.num * a.den, a.den * b.den)

\* the sum of the first n terms
RECURSIVE PartialSum(_, _, _)
PartialSum(actual, expect, n) ==
    IF n = 0 THEN Frac(0, 1)
    ELSE With(PartialSum(actual, expect, n - 1),
              LAMBDA sum : FAdd(sum, Term(actual[n], expect[n])))

Statistic(actual, expect) == PartialSum(actual, expect, Len(actual))

\* chi2.sf(stat, df): "1.0" at 0, "0.0" at inf, "below1" in between,
\* "nan" for a nan statistic or for no degree of freedom
Probability(stat, df) ==
    IF df <= 0 \/ stat.kind = "nan" THEN "nan"
    ELSE IF stat.kind = "inf" THEN "0.0"
    ELSE IF stat.num = 0 THEN "1.0"
    ELSE "below1"

NoResult == [chi2 |-> NaN, p |-> "nan"]

\* lines 78-79.  checks: the installed scipy raises unless the two sums agree
\* (newer releases do, the releases of 2019 do not).
chi_squared_test(actual, expect, checks) ==
    IF checks /\ SumSeq(actual) # SumSeq(expect)
    THEN [err |-> SumsDiffer, res |-> NoResult]
    ELSE With(Statistic(actual, expect),
              LAMBDA chi2_stat :
                [err |-> NoError,
                 res |-> [chi2 |-> chi2_stat,
                          p |-> Probability(chi2_stat, Len(actual) - 1)]])

-----------------------------------------------------------------------------
(* plot_results *)

\* lines 84-85: Python's float division raises on a zero divisor
plot_results(actual) ==
    LET sum_actuals == SumSeq(actual)
    IN  IF actual # <<>> /\ sum_actuals = 0
        THEN [err |-> DivisionByZero, props |-> <<>>]
        ELSE [err |-> NoError,
              props |-> [i \in 1..Len(actual) |-> Frac(actual[i], sum_actuals)]]

-----------------------------------------------------------------------------
(* load_data *)

UpperChars == <<"A", "B", "C", "D", "E", "F", "G", "H", "I", "J", "K", "L", "M",
                "N", "O", "P", "Q", "R", "S", "T", "U", "V", "W", "X", "Y", "Z">>
LowerChars == <<"a", "b", "c", "d", "e", "f", "g", "h", "i", "j", "k", "l", "m",
                "n", "o", "p", "q", "r", "s", "t", "u", "v", "w", "x", "y", "z">>

\* the extension compared as written, without lower()
lower_Identity(s) == s

\* str.lower
lower(s) ==
    [i \in 1..Len(s) |->
        IF \E k \in 1..Len(UpperChars) : UpperChars[k] = s[i]
        THEN LowerChars[CHOOSE k \in 1..Len(UpperChars) : UpperChars[k] = s[i]]
        ELSE s[i]]

\* the largest index of s holding a character of cs, 0 when there is none
LastIndex(s, cs) ==
    LET hits == {i \in 1..Len(s) : s[i] \in cs}
    IN  IF hits = {} THEN 0 ELSE CHOOSE i \in hits : \A j \in hits : j <= i

\* os.path.splitext(p)[1] (ntpath): from the last dot of the last component,
\* unless that component has only dots before it
splitext(path) ==
    LET sepIndex == LastIndex(path, {"\\", "/"})
        dotIndex == LastIndex(path, {"."})
    IN  IF dotIndex > sepIndex
           /\ \E k \in (sepIndex + 1)..(dotIndex - 1) : path[k] # "."
        THEN SubSeq(path, dotIndex, Len(path))
        ELSE <<>>

\* line 124 and line 127: os.path.join(r'.\data', data_file)
DataDirName == <<".", "\\", "d", "a", "t", "a">>
join(dir, name) == dir \o <<"\\">> \o name

CsvExts == {<<".", "c", "s", "v">>, <<".", "t", "x", "t">>}
XlsExts == {<<".", "x", "l", "s">>, <<".", "x", "l", "s", "x">>}

\* pd.read_csv / pd.read_excel, then the first column.  table is the file's
\* columns.  With header the first row names the columns.  Of a file with no
\* rows pandas gives no column to index (read_csv raises EmptyDataError) or,
\* where a release does give one, an empty column: both are outcomes.
ReadFirstColumn(table, header) ==
    LET col == table[1]
        rows == IF header /\ col # <<>> THEN DropFirst(col) ELSE col
    IN  IF col = <<>>
        THEN {[err |-> EmptyData, data |-> <<>>], [err |-> NoError, data |-> <<>>]}
        ELSE {[err |-> NoError, data |-> rows]}

\* lines 35-54: the outcomes of load_data(data_file, header)
load_data(path, table, header) ==
    With(With(path, LAMBDA q : splitext(q)),
         LAMBDA ext :
            IF With(ext, LAMBDA e : lower(e)) \in CsvExts
            THEN ReadFirstColumn(table, header)
            ELSE IF With(ext, LAMBDA e : lower(e)) \in XlsExts
            THEN ReadFirstColumn(table, header)
            ELSE {[err |-> CannotProcess, data |-> <<>>]})

-----------------------------------------------------------------------------
(* What is printed *)

Printed(kind, file, e, res) == [kind |-> kind, file |-> file, err |-> e, res |-> res]

\* the file the for loop is at
data_file == data_dir[idx].name

-----------------------------------------------------------------------------
(* The __main__ block and main(), one action per statement *)

\* the locals of main and of the functions it calls, before any is assigned
FreshLocals ==
    /\ series = <<>>
    /\ pos = 0
    /\ first_digits = <<>>
    /\ first_digit = -1
    /\ actuals = <<>>
    /\ n_observations = 0
    /\ expected = <<>>
    /\ result = NoResult
    /\ proportions = <<>>
    /\ bound = {}

\* lines 125-127: the loop takes the next file and main(file) is called
ForNextFile ==
    /\ pc = "for"
    /\ idx < Len(data_dir)
    /\ idx' = idx + 1
    /\ out' = Append(out, Printed("testing", data_dir[idx + 1].name, NoError, NoResult))
    /\ series' = <<>>
    /\ pos' = 0
    /\ first_digits' = <<>>
    /\ first_digit' = -1
    /\ actuals' = <<>>
    /\ n_observations' = 0
    /\ expected' = <<>>
    /\ result' = NoResult
    /\ proportions' = <<>>
    /\ bound' = {}
    /\ pc' = "load_data"
    /\ UNCHANGED <<data_dir, err, raised_in, sum_check>>

\* line 125: the listing is exhausted
ForExhausted ==
    /\ pc = "for"
    /\ idx = Len(data_dir)
    /\ pc' = "done"
    /\ UNCHANGED <<data_dir, idx, series, pos, first_digits, first_digit,
                   actuals, n_observations, expected, result, proportions, err,
                   raised_in, bound, out, sum_check>>

\* line 113: series = load_data(data_file)
LoadData ==
    /\ pc = "load_data"
    /\ \E r \in load_data(join(DataDirName, data_file), data_dir[idx].table, FALSE) :
          IF r.err # NoError
          THEN /\ err' = r.err
               /\ raised_in' = "load_data"
               /\ pc' = "except"
               /\ UNCHANGED <<series, bound>>
          ELSE /\ series' = r.data
               /\ bound' = bound \cup {"series"}
               /\ pc' = "count_first_digits"
               /\ UNCHANGED <<err, raised_in>>
    /\ UNCHANGED <<data_dir, idx, pos, first_digits, first_digit, actuals,
                   n_observations, expected, result, proportions, out, sum_check>>

\* lines 57-59: count_first_digits(series) is entered
CountEnter ==
    /\ pc = "count_first_digits"
    /\ first_digits' = NewFirstDigits
    /\ pos' = 1
    /\ first_digit' = -1
    /\ pc' = "count_loop"
    /\ UNCHANGED <<data_dir, idx, series, actuals, n_observations, expected,
                   result, proportions, err, raised_in, bound, out, sum_check>>

\* lines 60-68: one pass of the loop body
CountValue ==
    /\ pc = "count_loop"
    /\ pos <= Size(series)
    /\ LET d == ExtractDigit(ValueAt(series, pos))
           inc == Increment(first_digits, d.val)
       IN  IF d.err # NoError
           THEN /\ err' = d.err
                /\ raised_in' = "count_first_digits"
                /\ pc' = "except"
                /\ UNCHANGED <<first_digit, first_digits, pos>>
           ELSE IF inc.err # NoError
           THEN /\ first_digit' = d.val
                /\ err' = inc.err
                /\ raised_in' = "count_first_digits"
                /\ pc' = "except"
                /\ UNCHANGED <<first_digits, pos>>
           ELSE /\ first_digit' = d.val
                /\ first_digits' = inc.fd
                /\ pos' = pos + 1
                /\ UNCHANGED <<err, raised_in, pc>>
    /\ UNCHANGED <<data_dir, idx, series, actuals, n_observations, expected,
                   result, proportions, bound, out, sum_check>>

\* line 69 and line 114: the counts are returned and bound to actuals
CountReturn ==
    /\ pc = "count_loop"
    /\ pos > Size(series)
    /\ actuals' = SortedCounts(first_digits)
    /\ bound' = bound \cup {"actuals"}
    /\ pc' = "get_expected_counts"
    /\ UNCHANGED <<data_dir, idx, series, pos, first_digits, first_digit,
                   n_observations, expected, result, proportions, err,
                   raised_in, out, sum_check>>

\* line 115: expected = get_expected_counts(sum(actuals))
GetExpected ==
    /\ pc = "get_expected_counts"
    /\ n_observations' = SumSeq(actuals)
    /\ expected' = get_expected_counts(SumSeq(actuals))
    /\ bound' = bound \cup {"expected"}
    /\ pc' = "chi_squared_test"
    /\ UNCHANGED <<data_dir, idx, series, pos, first_digits, first_digit,
                   actuals, result, proportions, err, raised_in, out, sum_check>>

\* line 117: chi2, p = chi_squared_test(actuals, expected)
ChiSquared ==
    /\ pc = "chi_squared_test"
    /\ LET r == chi_squared_test(actuals, expected, sum_check)
       IN  IF r.err # NoError
           THEN /\ err' = r.err
                /\ raised_in' = "chi_squared_test"
                /\ pc' = "except"
                /\ UNCHANGED <<result, bound>>
           ELSE /\ result' = r.res
                /\ bound' = bound \cup {"chi2", "p"}
                /\ pc' = "print"
                /\ UNCHANGED <<err, raised_in>>
    /\ UNCHANGED <<data_dir, idx, series, pos, first_digits, first_digit,
                   actuals, n_observations, expected, proportions, out,
                   sum_check>>

\* line 118: the statistic and the p-value are printed
PrintResult ==
    /\ pc = "print"
    /\ out' = Append(out, Printed("result", data_file, NoError, result))
    /\ pc' = "plot_results"
    /\ UNCHANGED <<data_dir, idx, series, pos, first_digits, first_digit,
                   actuals, n_observations, expected, result, proportions, err,
                   raised_in, bound, sum_check>>

\* line 119: plot_results(actuals); main returns to the loop
PlotResults ==
    /\ pc = "plot_results"
    /\ LET r == plot_results(actuals)
       IN  IF r.err # NoError
           THEN /\ err' = r.err
                /\ raised_in' = "plot_results"
                /\ pc' = "except"
                /\ UNCHANGED <<proportions, out>>
           ELSE /\ proportions' = r.props
                /\ out' = Append(out, Printed("plot", data_file, NoError, result))
                /\ pc' = "for"
                /\ UNCHANGED <<err, raised_in>>
    /\ UNCHANGED <<data_dir, idx, series, pos, first_digits, first_digit,
                   actuals, n_observations, expected, result, bound, sum_check>>

\* Except ending the loop: the try placed around the for statement
Except_Halts ==
    /\ pc = "except"
    /\ out' = Append(out, Printed("error", data_file, err, NoResult))
    /\ err' = NoError
    /\ pc' = "done"
    /\ UNCHANGED <<data_dir, idx, series, pos, first_digits, first_digit,
                   actuals, n_observations, expected, result, proportions,
                   raised_in, bound, sum_check>>

\* lines 130-131: except Exception as e: print(e)
Except ==
    /\ pc = "except"
    /\ out' = Append(out, Printed("error", data_file, err, NoResult))
    /\ err' = NoError
    /\ pc' = "for"
    /\ UNCHANGED <<data_dir, idx, series, pos, first_digits, first_digit,
                   actuals, n_observations, expected, result, proportions,
                   raised_in, bound, sum_check>>

Next ==
    \/ ForNextFile
    \/ ForExhausted
    \/ LoadData
    \/ CountEnter
    \/ CountValue
    \/ CountReturn
    \/ GetExpected
    \/ ChiSquared
    \/ PrintResult
    \/ PlotResults
    \/ Except

-----------------------------------------------------------------------------
(* Calls of the two pure functions on their own *)

\* get_expected_counts(n_observations)
ExpectedCall ==
    /\ pc = "call get_expected_counts"
    /\ expected' = get_expected_counts(n_observations)
    /\ pc' = "returned"
    /\ UNCHANGED <<data_dir, idx, series, pos, first_digits, first_digit,
                   actuals, n_observations, result, proportions, err,
                   raised_in, bound, out, sum_check>>

\* chi_squared_test(actuals, expected)
ChiCall ==
    /\ pc = "call chi_squared_test"
    /\ LET r == chi_squared_test(actuals, expected, sum_check)
       IN  /\ err' = r.err
           /\ result' = r.res
           /\ raised_in' = IF r.err # NoError THEN "chi_squared_test" ELSE raised_in
    /\ pc' = "returned"
    /\ UNCHANGED <<data_dir, idx, series, pos, first_digits, first_digit,
                   actuals, n_observations, expected, proportions, bound, out,
                   sum_check>>

NextExpected == ExpectedCall
NextChi == ChiCall

-----------------------------------------------------------------------------
(* The inputs *)

\* the values a column is drawn from
Values ==
    { IntValue(FALSE, 123),          \* 123
      IntValue(TRUE, 55),            \* -55
      IntValue(FALSE, 0),            \* 0
      FloatValue(FALSE, 456, 4),     \* 0.0456
      StrValue(<<"7", "8", "9">>),   \* "789"
      FloatValue(FALSE, 25, 1),      \* 2.5
      StrValue(<<>>),                \* ""
      NaNValue,                      \* a blank cell
      NoneValue }                    \* neither a number nor a str

Series == {Column(s) : s \in SeqsUpTo(Values, MaxLen)}

\* a file's columns: the data column alone, or followed by a blank column
Tables == {<<s>> : s \in Series} \cup {<<s, [i \in 1..Len(s) |-> Run(NaNValue, s[i].times)]>> : s \in Series}

FileNames ==
    { <<"a", ".", "c", "s", "v">>,
      <<"A", ".", "C", "S", "V">>,
      <<"b", ".", "t", "x", "t">>,
      <<"c", ".", "x", "l", "s">>,
      <<"d", ".", "X", "l", "s", "x">>,
      <<"e", ".", "j", "s", "o", "n">>,
      <<"R", "E", "A", "D", "M", "E">>,
      <<".", "c", "s", "v">> }

Files == [name : FileNames, table : Tables]

InitRun ==
    /\ idx = 0
    /\ pc = "for"
    /\ FreshLocals
    /\ err = NoError
    /\ raised_in = "none"
    /\ out = <<>>
    /\ sum_check \in BOOLEAN

\* one file in the directory, any file
Init ==
    /\ data_dir \in {<<f>> : f \in Files}
    /\ InitRun

Spec == Init /\ [][Next]_vars

-----------------------------------------------------------------------------
(* A data directory of several files *)

BatchFiles ==
    { [name |-> <<"a", ".", "c", "s", "v">>,
       table |-> <<Column(<<IntValue(FALSE, 123), StrValue(<<"7", "8", "9">>)>>)>>],
      [name |-> <<"b", ".", "t", "x", "t">>,
       table |-> <<Column(<<IntValue(FALSE, 123), NoneValue>>)>>],
      [name |-> <<"c", ".", "x", "l", "s">>, table |-> <<<<>>>>],
      [name |-> <<"d", ".", "X", "l", "s", "x">>,
       table |-> <<Column(<<IntValue(TRUE, 55)>>)>>],
      [name |-> <<"e", ".", "j", "s", "o", "n">>,
       table |-> <<Column(<<IntValue(FALSE, 123)>>)>>] }

\* os.listdir gives each name once
Listings ==
    {d \in SeqsUpTo(BatchFiles, MaxFiles) :
        \A i, j \in 1..Len(d) : i # j => d[i].name # d[j].name}

InitBatch ==
    /\ data_dir \in Listings
    /\ InitRun

\* the interpreter runs the next statement as long as there is one
SpecBatch == InitBatch /\ [][Next]_vars /\ WF_vars(Next)

-----------------------------------------------------------------------------
(* A dataset of 1000 values whose first digits follow Benford's proportions *)

BenfordCounts == <<301, 176, 125, 97, 79, 67, 58, 51, 46>>

\* a value with first digit d, as an int (d23), a float (d.5) or a str ("d89")
ValueWithDigit(d, type) ==
    CASE type = "int" -> IntValue(FALSE, d * 100 + 23)
      [] type = "float" -> FloatValue(FALSE, d * 10 + 5, 1)
      [] type = "str" -> StrValue(<<DigitChar(d), "8", "9">>)

\* the 1000 values, sorted by first digit upwards or downwards
BenfordSeries(type, ascending) ==
    [i \in 1..9 |->
        LET d == IF ascending THEN i ELSE 10 - i
        IN  Run(ValueWithDigit(d, type), BenfordCounts[d])]

BenfordFiles ==
    { [name |-> <<"b", ".", "t", "x", "t">>, table |-> <<BenfordSeries(type, asc)>>] :
        type \in {"int", "float", "str"}, asc \in BOOLEAN }

StrayFile ==
    [name |-> <<"e", ".", "j", "s", "o", "n">>, table |-> <<Column(<<IntValue(FALSE, 123)>>)>>]

\* the dataset alone in the directory, or followed by a file of another format
InitE2E ==
    /\ data_dir \in {<<f>> : f \in BenfordFiles} \cup {<<f, StrayFile>> : f \in BenfordFiles}
    /\ InitRun

SpecE2E == InitE2E /\ [][Next]_vars

-----------------------------------------------------------------------------
(* get_expected_counts and chi_squared_test on inputs of their own *)

InitPure ==
    /\ data_dir = <<>>
    /\ idx = 0
    /\ series = <<>>
    /\ pos = 0
    /\ first_digits = <<>>
    /\ first_digit = -1
    /\ proportions = <<>>
    /\ result = NoResult
    /\ bound = {}
    /\ err = NoError
    /\ raised_in = "none"
    /\ out = <<>>

InitExpected ==
    /\ InitPure
    /\ pc = "call get_expected_counts"
    /\ n_observations \in 0..MaxTotal
    /\ actuals = <<>>
    /\ expected = <<>>
    /\ sum_check = FALSE

SpecExpected == InitExpected /\ [][NextExpected]_vars

\* two sequences of counts of one length
InitChi ==
    /\ InitPure
    /\ pc = "call chi_squared_test"
    /\ n_observations = 0
    /\ \E n \in 1..MaxChiLen :
          /\ actuals \in [1..n -> 0..MaxCount]
          /\ expected \in [1..n -> 0..MaxCount]
    /\ sum_check \in BOOLEAN

SpecChi == InitChi /\ [][NextChi]_vars

-----------------------------------------------------------------------------
(* What the claims speak of *)

\* the characters a value is written with
Written(v) == IF v.kind = "str" THEN v.text ELSE IF IsNumber(v) THEN str(v) ELSE <<>>

NonZeroDigitChars == {"1", "2", "3", "4", "5", "6", "7", "8", "9"}

\* the characters left once every '-', '0' and '.' before the first other
\* character is skipped
RECURSIVE SkipInsignificant(_)
SkipInsignificant(t) ==
    IF t # <<>> /\ t[1] \in {"-", "0", "."} THEN SkipInsignificant(Tail(t)) ELSE t

\* a number or a numeric string that has a leading significant digit
ValidObserved(v) ==
    /\ v.kind \in {"int", "float", "str"}
    /\ SkipInsignificant(Written(v)) # <<>>
    /\ SkipInsignificant(Written(v))[1] \in NonZeroDigitChars

LeadingSignificantDigit(v) ==
    CHOOSE d \in 1..9 : DigitChar(d) = SkipInsignificant(Written(v))[1]

\* a value whose written form begins with a digit 1..9
StartsWithDigit(v) == Written(v) # <<>> /\ Written(v)[1] \in NonZeroDigitChars

CountRaised == pc = "except" /\ raised_in = "count_first_digits"
CountReturned == "actuals" \in bound

\* the file main was called with
TheFile == data_dir[idx]

-----------------------------------------------------------------------------
\* C1: for every sequence of valid values (numbers and numeric strings with a
\* leading significant digit) count_first_digits returns 9 nonnegative counts,
\* digit 1 first, the count of digit d being the number of values whose
\* leading significant digit is d, and the counts sum to the number of values.
C1_CountsEveryValue ==
    ("series" \in bound /\ \A k \in 1..Size(series) : ValidObserved(ValueAt(series, k)))
    => /\ ~CountRaised
       /\ CountReturned =>
            /\ Len(actuals) = 9
            /\ \A d \in 1..9 :
                 /\ actuals[d] >= 0
                 /\ actuals[d] = Cardinality({k \in 1..Size(series) :
                                     LeadingSignificantDigit(ValueAt(series, k)) = d})
            /\ SumSeq(actuals) = Size(series)

\* C2: the digit taken from a valid value is its leading significant digit,
\* in 1..9: '-', '0' and '.' are skipped first.
C2_LeadingSignificantDigit ==
    /\ (pc = "count_loop" /\ pos > 1 /\ ValidObserved(ValueAt(series, pos - 1)))
       => /\ first_digit \in 1..9
          /\ first_digit = LeadingSignificantDigit(ValueAt(series, pos - 1))
    /\ CountRaised => ~ValidObserved(ValueAt(series, pos))

\* C3 as stated: a value that is neither a number nor a str stops the count at
\* the first such value with 'Wrong data format', and that is the only error a
\* bad value (one with no leading significant digit) raises.
C3_OnlyWrongDataFormat ==
    /\ (CountRaised /\ ~ValidObserved(ValueAt(series, pos))) => err = WrongDataFormat
    /\ CountReturned => \A k \in 1..Size(series) : ValueAt(series, k).kind # "none"

\* the exception the loop body raises for a value that does not begin with a
\* digit 1..9
ErrorOf(v) ==
    IF v.kind = "none" THEN WrongDataFormat
    ELSE IF Written(v) = <<>> THEN StringIndex
    ELSE IF Written(v)[1] = "0" THEN KeyErr
    ELSE InvalidLiteral

\* C3, amended: the count stops at the first value whose written form does not
\* begin with a digit 1..9; a value that is neither a number nor a str raises
\* 'Wrong data format', an empty string IndexError, a leading '0' KeyError, any
\* other first character int()'s ValueError; the exception reaches the caller
\* and is printed unchanged, and no counts are returned.
C3_FailFast ==
    /\ CountRaised =>
         /\ ~CountReturned /\ actuals = <<>>
         /\ pos \in 1..Size(series)
         /\ \A k \in 1..(pos - 1) : StartsWithDigit(ValueAt(series, k))
         /\ ~StartsWithDigit(ValueAt(series, pos))
         /\ err = ErrorOf(ValueAt(series, pos))
         /\ ValueAt(series, pos).kind = "none" => err = WrongDataFormat
    /\ (raised_in = "count_first_digits" /\ pc # "except") =>
         /\ ~CountReturned
         /\ out[Len(out)] = Printed("error", TheFile.name,
                                  ErrorOf(ValueAt(series, pos)), NoResult)
    /\ CountReturned => \A k \in 1..Size(series) : StartsWithDigit(ValueAt(series, k))

C3_Witness ==
    /\ CountRaised
    /\ pos > 1
    /\ ValueAt(series, pos).kind = "none"
    /\ err = WrongDataFormat

\* the names of FileNames whose extension is .csv, .txt, .xls or .xlsx in any
\* letter case
SupportedNames ==
    { <<"a", ".", "c", "s", "v">>,
      <<"A", ".", "C", "S", "V">>,
      <<"b", ".", "t", "x", "t">>,
      <<"c", ".", "x", "l", "s">>,
      <<"d", ".", "X", "l", "s", "x">> }

\* C5: main reaches the test and the plot's division only with a total above
\* 0, and on an empty dataset it raises nothing.
C5_NoDataHandled ==
    /\ pc \in {"chi_squared_test", "plot_results"} => SumSeq(actuals) > 0
    /\ (idx >= 1 /\ TheFile.table[1] = <<>> /\ TheFile.name \in SupportedNames)
       => pc # "except"

\* C10: load_data returns the first column of a file whose extension is, in
\* any letter case, .csv, .txt, .xls or .xlsx (the reader raising only for a
\* file with no rows), and for any other extension raises 'Cannot process file
\* format' and returns nothing.
C10_LoadData ==
    (idx >= 1 /\ pc # "load_data") =>
        IF TheFile.name \in SupportedNames
        THEN /\ "series" \in bound => series = TheFile.table[1]
             /\ TheFile.table[1] # <<>> => "series" \in bound
             /\ "series" \notin bound => (pc = "except" => err = EmptyData)
        ELSE /\ "series" \notin bound
             /\ raised_in = "load_data"
             /\ pc = "except" => err = CannotProcess
             /\ pc # "except" =>
                  out[Len(out)] = Printed("error", TheFile.name, CannotProcess, NoResult)

C10_Witness ==
    /\ idx = 1
    /\ TheFile.name = <<"A", ".", "C", "S", "V">>
    /\ Len(TheFile.table) = 2
    /\ "series" \in bound
    /\ Size(series) = MaxLen

-----------------------------------------------------------------------------
\* C4: chi_squared_test raises whenever an expected count is 0; it returns no
\* statistic and probability then.
C4_ZeroExpectedRaises ==
    (pc = "returned" /\ \E i \in 1..Len(expected) : expected[i] = 0)
    => err # NoError

AllPositive(s) == \A i \in 1..Len(s) : s[i] > 0

\* the product of the elements of s but the i-th
RECURSIVE ProductBut(_, _)
ProductBut(s, i) ==
    IF s = <<>> THEN 1
    ELSE (IF Len(s) = i THEN 1 ELSE s[Len(s)]) * ProductBut(SubSeq(s, 1, Len(s) - 1), i)

\* num / den is the sum over i of (actuals[i] - expected[i])^2 / expected[i]
IsPearsonSum(num, den) ==
    LET terms == [i \in 1..Len(expected) |->
                    (actuals[i] - expected[i]) * (actuals[i] - expected[i])
                    * ProductBut(expected, i)]
    IN  num * ProductBut(expected, 0) = den * SumSeq(terms)

\* C8 as stated: for every sequence of nonnegative counts the test of the
\* sequence against itself gives statistic 0.0 and probability 1.0, and a
\* statistic is nonnegative and 0 exactly when the two sequences agree.
C8_IdenticalFitsPerfectly ==
    /\ (pc = "returned" /\ actuals = expected)
       => /\ err = NoError
          /\ result.chi2 = Frac(0, 1)
          /\ result.p = "1.0"
    /\ (pc = "returned" /\ err = NoError)
       => /\ result.chi2.kind = "num"
          /\ result.chi2.num >= 0
          /\ result.chi2.num = 0 <=> actuals = expected

\* C8, amended: for every sequence of two or more positive counts the test of
\* the sequence against itself gives statistic 0.0 and probability 1.0; when
\* every expected count is positive a returned statistic is the sum of
\* (observed - expected)^2 / expected, nonnegative, and 0 exactly when the two
\* sequences agree.
C8_PositiveIdenticalFits ==
    /\ (pc = "returned" /\ actuals = expected /\ AllPositive(expected)
          /\ Len(expected) >= 2)
       => /\ err = NoError
          /\ result.chi2 = Frac(0, 1)
          /\ result.p = "1.0"
    /\ (pc = "returned" /\ err = NoError /\ AllPositive(expected))
       => /\ result.chi2.kind = "num"
          /\ result.chi2.num >= 0
          /\ result.chi2.den > 0
          /\ IsPearsonSum(result.chi2.num, result.chi2.den)
          /\ result.chi2.num = 0 <=> actuals = expected

C8_Witness ==
    /\ pc = "returned"
    /\ Len(expected) = MaxChiLen
    /\ actuals = expected
    /\ AllPositive(expected)
    /\ expected[1] # expected[2]
    /\ result.p = "1.0"

\* C7: get_expected_counts(total) is 9 nonnegative counts, the i-th the
\* integer nearest to total * BENFORD_PROPS[i]; nine zeros for total 0; and
\* the counts sum to the total within 9 (for total 1000, to 1000 itself).
C7_ExpectedCounts ==
    pc = "returned" =>
        /\ Len(expected) = 9
        /\ \A i \in 1..9 :
             /\ expected[i] >= 0
             /\ 2 * (expected[i] * PropScale - n_observations * BENFORD_PROPS[i]) <= PropScale
             /\ 2 * (n_observations * BENFORD_PROPS[i] - expected[i] * PropScale) <= PropScale
        /\ n_observations = 0 => expected = [i \in 1..9 |-> 0]
        /\ SumSeq(expected) - n_observations \in -9..9

C7_Witness ==
    /\ pc = "returned"
    /\ n_observations = 1000
    /\ SumSeq(expected) = 1000

\* C9: for the 1000 values whose first digits occur 301, 176, 125, 97, 79,
\* 67, 58, 51, 46 times, main counts exactly those, the expected counts equal
\* them, and the test gives statistic 0 and probability 1 without raising.
C9_BenfordDatasetFits ==
    (idx = 1) =>
        /\ pc # "except"
        /\ "actuals" \in bound => actuals = BenfordCounts
        /\ "expected" \in bound => /\ n_observations = 1000
                                   /\ expected = actuals
        /\ "chi2" \in bound => /\ result.chi2 = Frac(0, 1)
                               /\ result.p = "1.0"

C9_Witness ==
    /\ idx = 1
    /\ Size(series) = 1000
    /\ series[1].value.kind = "float"
    /\ out # <<>>
    /\ out[Len(out)].kind = "result"
    /\ out[Len(out)].res.p = "1.0"

-----------------------------------------------------------------------------
\* the names printed by 'Testing:', in order
TestedNames ==
    LET tests == SelectSeq(out, LAMBDA e : e.kind = "testing")
    IN  [k \in 1..Len(tests) |-> tests[k].file]

\* the runs so far were made one after the other, in listing order, one per
\* file: each 'Testing:' line follows the plot or the error that ended the
\* run before it, and every line between two of them is about the same file
OneAtATime ==
    /\ TestedNames = [k \in 1..idx |-> data_dir[k].name]
    /\ \A k \in 1..Len(out) :
         IF out[k].kind = "testing"
         THEN k = 1 \/ out[k - 1].kind \in {"plot", "error"}
         ELSE k > 1 /\ out[k - 1].kind \in {"testing", "result"}
                    /\ out[k - 1].file = out[k].file

\* every file of the listing has been tried once and its run has ended, with a
\* plot or with its error printed
AllAttempted ==
    /\ idx = Len(data_dir)
    /\ \A i \in 1..Len(data_dir) :
         /\ Cardinality({k \in 1..Len(out) :
               out[k].kind = "testing" /\ out[k].file = data_dir[i].name}) = 1
         /\ Cardinality({k \in 1..Len(out) :
               out[k].kind \in {"plot", "error"} /\ out[k].file = data_dir[i].name}) = 1

\* C6: the files are processed one at a time, each run ending before the next
\* begins; an exception of a run is caught and printed for its file and the
\* loop goes on; and the loop ends having tried every file exactly once.
C6_BatchTriesEveryFile ==
    /\ [](OneAtATime /\ (pc = "done" => AllAttempted))
    /\ [][pc = "except" =>
            /\ pc' = "for"
            /\ idx' = idx
            /\ out' = Append(out, Printed("error", data_file, err, NoResult))]_vars
    /\ <>(pc = "done")

C6_Witness ==
    /\ pc = "done"
    /\ Len(data_dir) = MaxFiles
    /\ out[2].kind = "error"
    /\ out[Len(out)].kind = "plot"
    /\ \E k \in 1..Len(out) : out[k].err = WrongDataFormat

=============================================================================
